---- MODULE Spec2Model ----
(***************************************************************************)
(* A model of the oxidebook order book (src/src/order_book.rs): the        *)
(* price-time priority store of one trading pair, with place,              *)
(* cancel_order, change_order_volume and get_order.                        *)
(*                                                                         *)
(* An RBTree<TreeKey, Order> is modelled by the sequence of its entries in *)
(* iteration order; insertion, removal and lookup locate their position    *)
(* with the Ord implementation of TreeKey, as the tree does.               *)
(*                                                                         *)
(* Calls on the book come one at a time: a call returns its result to the  *)
(* caller (last), the caller consumes it, then the next call is made.      *)
(*                                                                         *)
(* SpecExchange is the consume loop of Exchange::run (src/src/core.rs),    *)
(* one step per await. SpecGateway is the REST gateway                     *)
(* (src/src/rest_api.rs): its request handlers, the registry               *)
(* OutboxResults and the outbox consumer, running against the exchange.    *)
(* SpecPairs is an Exchange whose owner calls add_pair before and after    *)
(* run. SpecSubscriber adds the market-data subscriber                     *)
(* (src/src/outbox.rs, src/src/ws_md_api.rs) as a second consumer of the   *)
(* queue "outbox".                                                         *)
(***************************************************************************)
EXTENDS Integers, Sequences, FiniteSets, TLC

(* ---- bounds of the model ---- *)
MaxPrice == 2
MaxVolume == 2
MaxOrders == 3
MaxInbox == 3
MaxExchangePrice == 1
MaxRequests == 2
MaxRedeliveries == 1

Prices == 1..MaxPrice
Volumes == 1..MaxVolume
OrderIds == 1..MaxOrders

Buy == "Buy"
Sell == "Sell"
Sides == {Buy, Sell}

\* Option::None, and the outcome of unwrap on it
None == [is_none |-> TRUE]
Panic == [panicked |-> TRUE]

\* OrderBook.next_seq_id
VARIABLE next_seq_id
\* OrderBook.buy_levels, entries in iteration order
VARIABLE buy_levels
\* OrderBook.sell_levels, entries in iteration order
VARIABLE sell_levels
\* OrderBook.by_uuid : order id -> TreeKey
VARIABLE by_uuid
\* number of order ids minted so far (Uuid::new_v4 yields a fresh id)
VARIABLE minted
\* the call whose result its caller holds: arguments, result, the book before
\* it; op is "new" after construction and "none" once the result was consumed
VARIABLE last
\* Exchange.pairs : pair name -> OrderBook
VARIABLE pairs
\* the inbox deliveries the consumer has yielded so far, in order
VARIABLE consumed
\* the delivery the loop body of Exchange::run is working on, with its locals
VARIABLE delivery
\* the messages published to the outbox queue, in order
VARIABLE outbox_queue
\* the delivery tags acknowledged on the consuming channel, in order
VARIABLE acked
\* the position of Exchange::run: "setup" before the call, then "next",
\* "publish", "ack", or "failed" once it returned an error
VARIABLE pc
\* the error Exchange::run ended with, once pc is "failed"
VARIABLE error
\* the last call of Exchange::add_pair: its argument and its result
VARIABLE add_pair_call

\* the messages published to the inbox queue, in order
VARIABLE inbox_queue
\* the gateway's request handlers: position, request, msg_id, the receiving
\* end of the oneshot channel, the response
VARIABLE handlers
\* OutboxResults.senders : msg_id -> RefCell<Option<Sender<OutboxEnvelope>>>
VARIABLE senders
\* what run_outbox_consumer did with each outbox delivery it was handed
VARIABLE gw_log
\* the position of run_outbox_consumer: "next", "panicked" or "failed"
VARIABLE gw_pc
\* the outbox deliveries the market-data subscriber was handed, in order
VARIABLE md_log

book_vars == <<next_seq_id, buy_levels, sell_levels, by_uuid, last>>
exchange_vars == <<pairs, consumed, delivery, outbox_queue, acked, pc, error,
                   add_pair_call>>
gateway_vars == <<inbox_queue, handlers, senders, gw_log, gw_pc>>
subscriber_vars == <<md_log>>
vars == <<next_seq_id, buy_levels, sell_levels, by_uuid, minted, last,
          pairs, consumed, delivery, outbox_queue, acked, pc, error,
          add_pair_call, inbox_queue, handlers, senders, gw_log, gw_pc, md_log>>

Min(a, b) == IF a <= b THEN a ELSE b

\* Side::opposite
Opposite(side) == IF side = Buy THEN Sell ELSE Buy

\* u64::cmp
U64Cmp(a, b) == IF a < b THEN "Less" ELSE IF a = b THEN "Equal" ELSE "Greater"

\* Ordering::reverse
Reverse(c) == IF c = "Less" THEN "Greater" ELSE IF c = "Greater" THEN "Less" ELSE c

\* Order { id, side, price, volume }
Order(id, side, price, volume) ==
    [id |-> id, side |-> side, price |-> price, volume |-> volume]

\* Order::tree_key
TreeKeyOf(order, seq_id) ==
    [side |-> order.side, price |-> order.price, seq_id |-> seq_id]

\* a wrong ordering: equal prices ordered newest first
TreeKeyCmpNewestFirst(self, other) ==
    IF self.price = other.price
    THEN Reverse(U64Cmp(self.seq_id, other.seq_id))
    ELSE IF self.side = Sell
         THEN U64Cmp(self.price, other.price)
         ELSE Reverse(U64Cmp(self.price, other.price))

\* a wrong ordering: the buy side is not reversed
TreeKeyCmpNoReverse(self, other) ==
    IF self.price = other.price
    THEN U64Cmp(self.seq_id, other.seq_id)
    ELSE U64Cmp(self.price, other.price)

\* impl Ord for TreeKey
TreeKeyCmp(self, other) ==
    IF self.price = other.price
    THEN U64Cmp(self.seq_id, other.seq_id)
    ELSE IF self.side = Sell
         THEN U64Cmp(self.price, other.price)
         ELSE Reverse(U64Cmp(self.price, other.price))

(* ---- RBTree<TreeKey, Order> as the sequence of its entries ---- *)

Entry(key, order) == [key |-> key, order |-> order]

\* index of the first entry whose key compares Equal to key, 0 if none
TreeFind(tree, key) ==
    LET hits == {i \in 1..Len(tree) : TreeKeyCmp(key, tree[i].key) = "Equal"}
    IN IF hits = {} THEN 0 ELSE CHOOSE i \in hits : \A j \in hits : i <= j

\* RBTree::get
TreeGet(tree, key) ==
    LET i == TreeFind(tree, key)
    IN IF i = 0 THEN None ELSE tree[i].order

\* RBTree::insert: descends left on Less, right otherwise, so the new entry
\* lands before the first entry it is Less than
TreeInsert(tree, key, order) ==
    LET greater == {i \in 1..Len(tree) : TreeKeyCmp(key, tree[i].key) = "Less"}
        pos == IF greater = {} THEN Len(tree) + 1
               ELSE CHOOSE i \in greater : \A j \in greater : i <= j
    IN SubSeq(tree, 1, pos - 1) \o <<Entry(key, order)>> \o SubSeq(tree, pos, Len(tree))

\* a wrong removal: locates the entry by price alone
TreeRemoveByPrice(tree, key) ==
    LET hits == {i \in 1..Len(tree) : tree[i].key.price = key.price}
        i == IF hits = {} THEN 0 ELSE CHOOSE h \in hits : \A j \in hits : h <= j
    IN IF i = 0 THEN tree
       ELSE SubSeq(tree, 1, i - 1) \o SubSeq(tree, i + 1, Len(tree))

\* RBTree::remove
TreeRemove(tree, key) ==
    LET i == TreeFind(tree, key)
    IN IF i = 0 THEN tree
       ELSE SubSeq(tree, 1, i - 1) \o SubSeq(tree, i + 1, Len(tree))

\* RBTree::replace_or_insert
TreeReplaceOrInsert(tree, key, order) ==
    LET i == TreeFind(tree, key)
    IN IF i = 0 THEN TreeInsert(tree, key, order)
       ELSE [tree EXCEPT ![i] = Entry(tree[i].key, order)]

(* ---- HashMap<Uuid, TreeKey> as a function ---- *)

\* HashMap::insert
MapInsert(m, k, v) == [x \in DOMAIN m \cup {k} |-> IF x = k THEN v ELSE m[x]]

\* HashMap::remove
MapRemove(m, k) == [x \in DOMAIN m \ {k} |-> m[x]]

\* HashMap::get
MapGet(m, k) == IF k \in DOMAIN m THEN m[k] ELSE None

\* HashMap::new
EmptyMap == [x \in {} |-> None]

(* ---- OrderBook ---- *)

\* the book as one value
Book(seq, buys, sells, ids) ==
    [next_seq_id |-> seq, buy_levels |-> buys, sell_levels |-> sells, by_uuid |-> ids]

\* OrderBook::new
NewBook == Book(0, <<>>, <<>>, EmptyMap)

\* OrderBook::tree
Tree(book, side) == IF side = Sell THEN book.sell_levels ELSE book.buy_levels

\* OrderBook::tree_mut, assigning the tree of one side
WithTree(book, side, tree) ==
    IF side = Sell THEN [book EXCEPT !.sell_levels = tree]
    ELSE [book EXCEPT !.buy_levels = tree]

\* a wrong add_order: the counter is not advanced
AddOrderNoIncrement(book, order) ==
    LET key == TreeKeyOf(order, book.next_seq_id)
        b1 == WithTree(book, order.side, TreeInsert(Tree(book, order.side), key, order))
    IN [b1 EXCEPT !.by_uuid = MapInsert(@, order.id, key)]

\* OrderBook::add_order
AddOrder(book, order) ==
    LET key == TreeKeyOf(order, book.next_seq_id)
        b1 == WithTree(book, order.side, TreeInsert(Tree(book, order.side), key, order))
    IN [b1 EXCEPT !.by_uuid = MapInsert(@, order.id, key),
                  !.next_seq_id = @ + 1]

\* a wrong remove_order: the id index keeps the entry
RemoveOrderKeepId(book, key, order_id) ==
    WithTree(book, key.side, TreeRemove(Tree(book, key.side), key))

\* OrderBook::remove_order
RemoveOrder(book, key, order_id) ==
    LET b1 == WithTree(book, key.side, TreeRemove(Tree(book, key.side), key))
    IN [b1 EXCEPT !.by_uuid = MapRemove(@, order_id)]


(* ---- OrderBook::place ---- *)

\* a wrong crossing test: a buy at the maker's own price does not match
StopsWalkStrict(order, maker) ==
    \/ order.side = Buy /\ U64Cmp(order.price, maker.price) # "Greater"
    \/ order.side = Sell /\ U64Cmp(order.price, maker.price) = "Greater"

\* a wrong crossing test: only a buy ever stops the walk
StopsWalkBuyOnly(order, maker) ==
    order.side = Buy /\ U64Cmp(order.price, maker.price) = "Less"

\* the two break arms at the head of the loop body
StopsWalk(order, maker) ==
    \/ order.side = Buy /\ U64Cmp(order.price, maker.price) = "Less"
    \/ order.side = Sell /\ U64Cmp(order.price, maker.price) = "Greater"

\* a wrong deal volume: the larger of the two volumes
DealVolumeMax(maker, order) ==
    IF maker.volume >= order.volume THEN maker.volume ELSE order.volume

\* let deal_volume = min(maker_order.volume, order.volume)
DealVolume(maker, order) == Min(maker.volume, order.volume)

\* a wrong deal: the taker is copied after its volume was subtracted
MakeDealLateSnapshot(order, maker, deal_volume) ==
    [taker_order |-> [order EXCEPT !.volume = @ - deal_volume],
     maker_order |-> maker,
     volume |-> deal_volume]

\* Deal { taker_order: order, maker_order: *maker_order, volume: deal_volume }
MakeDeal(order, maker, deal_volume) ==
    [taker_order |-> order, maker_order |-> maker, volume |-> deal_volume]

\* the locals of place while it walks the makers
WalkState(tree, order, deals, removed_orders, stop) ==
    [tree |-> tree, order |-> order, deals |-> deals,
     removed_orders |-> removed_orders, stop |-> stop]

\* a wrong loop body: the maker's volume is not reduced
MatchStepKeepMaker(w, i) ==
    LET maker_order == w.tree[i].order
    IN IF StopsWalk(w.order, maker_order)
       THEN [w EXCEPT !.stop = TRUE]
       ELSE LET deal_volume == DealVolume(maker_order, w.order)
                order2 == [w.order EXCEPT !.volume = @ - deal_volume]
            IN WalkState(w.tree, order2,
                         Append(w.deals, MakeDeal(w.order, maker_order, deal_volume)),
                         IF maker_order.volume - deal_volume = 0
                         THEN Append(w.removed_orders, Entry(w.tree[i].key, maker_order))
                         ELSE w.removed_orders,
                         order2.volume = 0)

\* one iteration of the loop over the makers, at the i-th entry of the tree
MatchStep(w, i) ==
    LET maker_order == w.tree[i].order
    IN IF StopsWalk(w.order, maker_order)
       THEN [w EXCEPT !.stop = TRUE]
       ELSE LET deal_volume == DealVolume(maker_order, w.order)
                maker2 == [maker_order EXCEPT !.volume = @ - deal_volume]
                order2 == [w.order EXCEPT !.volume = @ - deal_volume]
            IN WalkState([w.tree EXCEPT ![i] = Entry(w.tree[i].key, maker2)],
                         order2,
                         Append(w.deals, MakeDeal(w.order, maker_order, deal_volume)),
                         IF maker2.volume = 0
                         THEN Append(w.removed_orders, Entry(w.tree[i].key, maker2))
                         ELSE w.removed_orders,
                         order2.volume = 0)

\* the loop over tree_mut(order.side.opposite()).iter_mut()
RECURSIVE Walk(_, _)
Walk(w, i) ==
    IF w.stop \/ i > Len(w.tree) THEN w ELSE Walk(MatchStep(w, i), i + 1)

\* the loop over removed_orders
RECURSIVE RemoveAll(_, _, _)
RemoveAll(book, removed_orders, i) ==
    IF i > Len(removed_orders) THEN book
    ELSE RemoveAll(RemoveOrder(book, removed_orders[i].key, removed_orders[i].order.id),
                   removed_orders, i + 1)

\* OrderBook::place
PlaceOrder(book, order) ==
    LET opp == Opposite(order.side)
        w == Walk(WalkState(Tree(book, opp), order, <<>>, <<>>, FALSE), 1)
        b1 == WithTree(book, opp, w.tree)
        b2 == RemoveAll(b1, w.removed_orders, 1)
        b3 == IF w.order.volume # 0 THEN AddOrder(b2, w.order) ELSE b2
    IN [book |-> b3, result |-> "Ok", deals |-> w.deals]

\* a wrong get_order: the key is looked up in the tree of the other side
GetOrderWrongSide(book, id) ==
    LET key == MapGet(book.by_uuid, id)
    IN IF key = None THEN None
       ELSE LET o == TreeGet(Tree(book, Opposite(key.side)), key)
            IN IF o = None THEN Panic ELSE o

\* OrderBook::get_order
GetOrder(book, id) ==
    LET key == MapGet(book.by_uuid, id)
    IN IF key = None THEN None
       ELSE LET o == TreeGet(Tree(book, key.side), key)
            IN IF o = None THEN Panic ELSE o

\* a wrong change_order_volume: no test for a zero volume
ChangeOrderVolumeNoZeroTest(book, order_id, new_volume) ==
    LET key == MapGet(book.by_uuid, order_id)
    IN IF key = None THEN [book |-> book, result |-> "OrderNotFound"]
       ELSE LET tree == Tree(book, key.side)
                order == TreeGet(tree, key)
            IN IF order = None THEN [book |-> book, result |-> Panic]
               ELSE [book |-> WithTree(book, key.side,
                                 TreeReplaceOrInsert(tree, key,
                                     [order EXCEPT !.volume = new_volume])),
                     result |-> "Ok"]

\* a wrong change_order_volume: the id is looked up before the volume is tested
ChangeOrderVolumeLookupFirst(book, order_id, new_volume) ==
    LET key == MapGet(book.by_uuid, order_id)
    IN IF key = None THEN [book |-> book, result |-> "OrderNotFound"]
       ELSE IF new_volume = 0 THEN [book |-> book, result |-> "ZeroVolume"]
       ELSE LET tree == Tree(book, key.side)
                order == TreeGet(tree, key)
            IN IF order = None THEN [book |-> book, result |-> Panic]
               ELSE [book |-> WithTree(book, key.side,
                                 TreeReplaceOrInsert(tree, key,
                                     [order EXCEPT !.volume = new_volume])),
                     result |-> "Ok"]

\* a wrong change_order_volume: the order is taken out and added again
ChangeOrderVolumeRequeue(book, order_id, new_volume) ==
    IF new_volume = 0 THEN [book |-> book, result |-> "ZeroVolume"]
    ELSE LET key == MapGet(book.by_uuid, order_id)
         IN IF key = None THEN [book |-> book, result |-> "OrderNotFound"]
            ELSE LET order == TreeGet(Tree(book, key.side), key)
                 IN IF order = None THEN [book |-> book, result |-> Panic]
                    ELSE [book |-> AddOrder(RemoveOrder(book, key, order_id),
                                            [order EXCEPT !.volume = new_volume]),
                          result |-> "Ok"]

\* OrderBook::change_order_volume
ChangeOrderVolume(book, order_id, new_volume) ==
    IF new_volume = 0 THEN [book |-> book, result |-> "ZeroVolume"]
    ELSE LET key == MapGet(book.by_uuid, order_id)
         IN IF key = None THEN [book |-> book, result |-> "OrderNotFound"]
            ELSE LET tree == Tree(book, key.side)
                     order == TreeGet(tree, key)
                 IN IF order = None THEN [book |-> book, result |-> Panic]
                    ELSE [book |-> WithTree(book, key.side,
                                      TreeReplaceOrInsert(tree, key,
                                          [order EXCEPT !.volume = new_volume])),
                          result |-> "Ok"]

\* a wrong cancel_order: a missing id is reported as cancelled
CancelOrderIgnoreMissing(book, order_id) ==
    LET key == MapGet(book.by_uuid, order_id)
    IN IF key = None THEN [book |-> book, result |-> "Ok"]
       ELSE [book |-> RemoveOrder(book, key, order_id), result |-> "Ok"]

\* a wrong cancel_order: the order is reported cancelled and left in the book
CancelOrderKeep(book, order_id) ==
    LET key == MapGet(book.by_uuid, order_id)
    IN IF key = None THEN [book |-> book, result |-> "OrderNotFound"]
       ELSE [book |-> book, result |-> "Ok"]

\* OrderBook::cancel_order
CancelOrder(book, order_id) ==
    LET key == MapGet(book.by_uuid, order_id)
    IN IF key = None THEN [book |-> book, result |-> "OrderNotFound"]
       ELSE [book |-> RemoveOrder(book, key, order_id), result |-> "Ok"]

(* ---- protocol.rs ---- *)

\* the pair Exchange is initialized with in run(), and one that is never added
PairNames == {"BTC_USD", "ETH_USD"}
SideStrings == {"buy", "sell"}
MsgIds == 1..MaxInbox

\* InboxMessage::PlaceOrder
PlaceOrderMessage(msg_id, pair, side, price, volume) ==
    [type |-> "PlaceOrder", msg_id |-> msg_id, pair |-> pair, side |-> side,
     price |-> price, volume |-> volume]

\* InboxMessage::CancelOrder
CancelOrderMessage(msg_id, pair, order_id) ==
    [type |-> "CancelOrder", msg_id |-> msg_id, pair |-> pair, order_id |-> order_id]

\* a delivery body that is not the JSON of an InboxMessage
Malformed == [type |-> "Malformed"]

\* MessageWithId::get_id
GetId(message) == message.msg_id

\* OutboxMessage::OrderPlaced
OrderPlaced(order_id, side, price, volume, pair) ==
    [type |-> "OrderPlaced", order_id |-> order_id, side |-> side, price |-> price,
     volume |-> volume, pair |-> pair]

\* OutboxMessage::OrderFilled
OrderFilled(maker_order, taker_order, volume) ==
    [type |-> "OrderFilled", maker_order |-> maker_order, taker_order |-> taker_order,
     volume |-> volume]

\* OutboxMessage::OrderCancelled
OrderCancelled(pair, order_id) ==
    [type |-> "OrderCancelled", pair |-> pair, order_id |-> order_id]

\* OutboxMessage::OrderNotFound
OrderNotFound(pair, order_id) ==
    [type |-> "OrderNotFound", pair |-> pair, order_id |-> order_id]

\* OutboxEnvelope::new
NewEnvelope(inbox_correlation_id) ==
    [inbox_correlation_id |-> inbox_correlation_id, messages |-> <<>>]

\* OutboxEnvelope::add_message
AddMessage(envelope, msg) == [envelope EXCEPT !.messages = Append(@, msg)]

\* serde_json::to_vec and serde_json::from_slice on an OutboxEnvelope
ToJson(envelope) == <<"json", envelope.inbox_correlation_id, envelope.messages>>
FromJson(bytes) == [inbox_correlation_id |-> bytes[2], messages |-> bytes[3]]

\* Uuid::to_hyphenated().to_string(), and the parse of that text
ToHyphenated(uuid) == [hyphenated |-> uuid]
ParseHyphenated(text) == text.hyphenated

(* ---- core.rs: the body of the consume loop of Exchange::run ---- *)

\* let side = if message.side == "buy" { Side::Buy } else { Side::Sell }
ParseSide(side) == IF side = "buy" THEN Buy ELSE Sell

\* the outcome of the match on one inbox message
Dispatched(ok, err, ps, outbox, deals, n_minted) ==
    [ok |-> ok, error |-> err, pairs |-> ps, outbox |-> outbox, deals |-> deals,
     minted |-> n_minted]

\* the loop `for deal in deals` that adds one OrderFilled per deal
RECURSIVE AddFilled(_, _, _)
AddFilled(outbox, deals, i) ==
    IF i > Len(deals) THEN outbox
    ELSE AddFilled(AddMessage(outbox, OrderFilled(deals[i].maker_order,
                                                  deals[i].taker_order,
                                                  deals[i].volume)),
                   deals, i + 1)

\* a wrong PlaceOrder arm: OrderPlaced is added after the OrderFilled messages
HandlePlaceOrderPlacedLast(ps, message, outbox, n_minted) ==
    IF message.pair \notin DOMAIN ps
    THEN Dispatched(FALSE, "invalid pair", ps, outbox, <<>>, n_minted)
    ELSE LET order == Order(n_minted + 1, ParseSide(message.side),
                            message.price, message.volume)
             r == PlaceOrder(ps[message.pair], order)
         IN Dispatched(TRUE, "", [ps EXCEPT ![message.pair] = r.book],
                       AddMessage(AddFilled(outbox, r.deals, 1),
                                  OrderPlaced(order.id, message.side, order.price,
                                              order.volume, message.pair)),
                       r.deals, n_minted + 1)

\* the InboxMessage::PlaceOrder arm
HandlePlaceOrder(ps, message, outbox, n_minted) ==
    IF message.pair \notin DOMAIN ps
    THEN Dispatched(FALSE, "invalid pair", ps, outbox, <<>>, n_minted)
    ELSE LET order == Order(n_minted + 1, ParseSide(message.side),
                            message.price, message.volume)
             r == PlaceOrder(ps[message.pair], order)
         IN Dispatched(TRUE, "", [ps EXCEPT ![message.pair] = r.book],
                       AddFilled(AddMessage(outbox,
                                     OrderPlaced(order.id, message.side, order.price,
                                                 order.volume, message.pair)),
                                 r.deals, 1),
                       r.deals, n_minted + 1)

\* a wrong CancelOrder arm: the Err arm reports OrderCancelled as well
HandleCancelOrderAlwaysCancelled(ps, message, outbox, n_minted) ==
    IF message.pair \notin DOMAIN ps
    THEN Dispatched(FALSE, "invalid pair", ps, outbox, <<>>, n_minted)
    ELSE LET r == CancelOrder(ps[message.pair], message.order_id)
         IN Dispatched(TRUE, "", [ps EXCEPT ![message.pair] = r.book],
                       AddMessage(outbox, OrderCancelled(message.pair, message.order_id)),
                       <<>>, n_minted)

\* the InboxMessage::CancelOrder arm
HandleCancelOrder(ps, message, outbox, n_minted) ==
    IF message.pair \notin DOMAIN ps
    THEN Dispatched(FALSE, "invalid pair", ps, outbox, <<>>, n_minted)
    ELSE LET r == CancelOrder(ps[message.pair], message.order_id)
         IN Dispatched(TRUE, "", [ps EXCEPT ![message.pair] = r.book],
                       AddMessage(outbox,
                           IF r.result = "Ok"
                           THEN OrderCancelled(message.pair, message.order_id)
                           ELSE OrderNotFound(message.pair, message.order_id)),
                       <<>>, n_minted)

\* a wrong decode: a body that is no InboxMessage is skipped with an empty
\* envelope
DispatchSkipsMalformed(ps, message, n_minted) ==
    IF message.type = "Malformed"
    THEN Dispatched(TRUE, "", ps, NewEnvelope(0), <<>>, n_minted)
    ELSE LET outbox == NewEnvelope(GetId(message))
         IN IF message.type = "PlaceOrder"
            THEN HandlePlaceOrder(ps, message, outbox, n_minted)
            ELSE HandleCancelOrder(ps, message, outbox, n_minted)

\* from the decode of the delivery to the end of the match
Dispatch(ps, message, n_minted) ==
    IF message.type = "Malformed"
    THEN Dispatched(FALSE, "decode", ps, None, <<>>, n_minted)
    ELSE LET outbox == NewEnvelope(GetId(message))
         IN IF message.type = "PlaceOrder"
            THEN HandlePlaceOrder(ps, message, outbox, n_minted)
            ELSE HandleCancelOrder(ps, message, outbox, n_minted)

\* wrong properties of the outbox publish: no correlation id is set
OutboxPropertiesDefault(envelope) == [correlation_id |-> None]

\* BasicProperties::default().with_correlation_id(...) of the outbox publish
OutboxProperties(envelope) ==
    [correlation_id |-> ToHyphenated(envelope.inbox_correlation_id)]

\* the message handed to basic_publish for the outbox queue
OutboxPublish(envelope) ==
    [payload |-> ToJson(envelope), properties |-> OutboxProperties(envelope)]

\* the locals of the loop body for one delivery
Delivery(tag, message, d, pre) ==
    [tag |-> tag, message |-> message, ok |-> d.ok, outbox |-> d.outbox,
     deals |-> d.deals, pre |-> pre]

\* no delivery has been taken yet
NoDelivery == [tag |-> 0]

\* Exchange::new
NewExchange == [p \in {} |-> NewBook]

\* the outcome of add_pair
Added(ps, result) == [pairs |-> ps, result |-> result]

\* HashMap::insert(pair_name, OrderBook::new())
InsertPair(ps, pair_name) ==
    [p \in DOMAIN ps \cup {pair_name} |-> IF p = pair_name THEN NewBook ELSE ps[p]]

\* a wrong add_pair: the new book is inserted over the existing one
AddPairReplaces(ps, pair_name) ==
    IF pair_name \in DOMAIN ps
    THEN Added(InsertPair(ps, pair_name), "AlreadyExists")
    ELSE Added(InsertPair(ps, pair_name), "Ok")

\* Exchange::add_pair
AddPair(ps, pair_name) ==
    IF pair_name \in DOMAIN ps
    THEN Added(ps, "AlreadyExists")
    ELSE Added(InsertPair(ps, pair_name), "Ok")

\* what the caller of add_pair holds: the name it passed and the result
AddPairCall(pair_name, result) == [pair_name |-> pair_name, result |-> result]

\* add_pair has not been called
NoAddPairCall == AddPairCall("", "")

\* Exchange::new, before any add_pair and before run is called
ExchangeCreated ==
    /\ pairs = NewExchange
    /\ consumed = <<>>
    /\ delivery = NoDelivery
    /\ outbox_queue = <<>>
    /\ acked = <<>>
    /\ pc = "setup"
    /\ error = ""
    /\ add_pair_call = NoAddPairCall

\* Exchange::new followed by add_pair("BTC_USD"), before the loop starts
ExchangeStarted ==
    /\ pairs = [p \in {"BTC_USD"} |-> NewBook]
    /\ add_pair_call = AddPairCall("BTC_USD", "Ok")
    /\ consumed = <<>>
    /\ delivery = NoDelivery
    /\ outbox_queue = <<>>
    /\ acked = <<>>
    /\ pc = "next"
    /\ error = ""

(* ---- rest_api.rs: the requests, the registry OutboxResults, the handlers ---- *)

\* the handlers of the requests in flight
HandlerIds == 1..MaxRequests

\* struct PlaceOrderRequest
PlaceOrderRequest(pair, side, price, volume) ==
    [type |-> "place-order", pair |-> pair, side |-> side, price |-> price,
     volume |-> volume]

\* struct CancelOrderRequest
CancelOrderRequest(pair, order_id) ==
    [type |-> "cancel-order", pair |-> pair, order_id |-> order_id]

\* bodies warp::body::json() decodes for the two routes: a buy, an order
\* with an unknown side, price 0 and volume 0, the cancel of the first order
Requests ==
    {PlaceOrderRequest("BTC_USD", "buy", 1, 1),
     PlaceOrderRequest("BTC_USD", "hold", 0, 0),
     CancelOrderRequest("BTC_USD", 1)}

\* `// TODO: validate request`: the handlers accept every decoded body
RequestAccepted(request) == TRUE

\* the InboxMessage a handler builds from its request and the minted msg_id
InboxMessageOf(request, msg_id) ==
    IF request.type = "place-order"
    THEN PlaceOrderMessage(msg_id, request.pair, request.side, request.price,
                           request.volume)
    ELSE CancelOrderMessage(msg_id, request.pair, request.order_id)

\* serde_json::to_vec and serde_json::from_slice on an InboxMessage
InboxToJson(message) == <<"json", message>>
InboxFromJson(bytes) == bytes[2]

\* BasicProperties::default() of the inbox publish
InboxProperties(message) == [correlation_id |-> None]

\* the message handed to basic_publish for the inbox queue
InboxPublish(message) ==
    [payload |-> InboxToJson(message), properties |-> InboxProperties(message)]

\* Option::Some
Some(x) == [some |-> x]

\* OutboxResults::new
NewOutboxResults == EmptyMap

\* OutboxResults::has_id
HasId(sn, uuid) == uuid \in DOMAIN sn

\* a handler: its position, its request and msg_id, the value its oneshot
\* receiver holds, its response
Handler(at, request, msg_id, rx, response) ==
    [pc |-> at, request |-> request, msg_id |-> msg_id, rx |-> rx,
     response |-> response]

\* no request has reached the handler
IdleHandler == Handler("idle", None, 0, None, None)

\* the receiving end of the handler's oneshot channel exists and is not dropped
ReceiverOpen(handler) == handler.pc = "waiting"

\* OutboxResults::wait_for_result up to the await: the sender of the
\* handler's new channel is inserted under its msg_id
InsertSender(sn, uuid, h) == MapInsert(sn, uuid, Some(h))

\* the outcome of send_result
Sent(sn, hs, sent, panicked) ==
    [senders |-> sn, handlers |-> hs, sent |-> sent, panicked |-> panicked]

\* a wrong send_result: the sender stays in its cell after the send
SendResultKeepSender(sn, hs, uuid, result) ==
    IF uuid \notin DOMAIN sn THEN Sent(sn, hs, FALSE, TRUE)
    ELSE IF sn[uuid] = None THEN Sent(sn, hs, FALSE, FALSE)
    ELSE LET h == sn[uuid].some
         IN IF ReceiverOpen(hs[h])
            THEN Sent(sn, [hs EXCEPT ![h].rx = result], TRUE, FALSE)
            ELSE Sent(sn, hs, FALSE, TRUE)

\* OutboxResults::send_result: get(&uuid).unwrap() panics without an entry;
\* take() empties the cell; tx.send(result).unwrap() panics when the receiver
\* was dropped
SendResult(sn, hs, uuid, result) ==
    IF uuid \notin DOMAIN sn THEN Sent(sn, hs, FALSE, TRUE)
    ELSE IF sn[uuid] = None THEN Sent(sn, hs, FALSE, FALSE)
    ELSE LET h == sn[uuid].some
             taken == [sn EXCEPT ![uuid] = None]
         IN IF ReceiverOpen(hs[h])
            THEN Sent(taken, [hs EXCEPT ![h].rx = result], TRUE, FALSE)
            ELSE Sent(taken, hs, FALSE, TRUE)

\* PlaceOrderResponse::dummy
DummyResponse == [order_id |-> 0, deals |-> <<>>]

\* the loop of place_order_handler over the messages of its envelope
RECURSIVE PlaceOrderResponse(_, _, _)
PlaceOrderResponse(response, messages, i) ==
    IF i > Len(messages) THEN response
    ELSE IF messages[i].type = "OrderPlaced"
    THEN PlaceOrderResponse([response EXCEPT !.order_id = messages[i].order_id],
                            messages, i + 1)
    ELSE IF messages[i].type = "OrderFilled"
    THEN PlaceOrderResponse(
             [response EXCEPT !.deals =
                 Append(@, MakeDeal(messages[i].taker_order, messages[i].maker_order,
                                    messages[i].volume))],
             messages, i + 1)
    ELSE Panic

\* the match of cancel_order_handler on the first message of its envelope
CancelOrderResponse(messages) ==
    IF messages = <<>> THEN Panic
    ELSE IF messages[1].type = "OrderCancelled" THEN [status |-> "OrderCancelled"]
    ELSE IF messages[1].type = "OrderNotFound" THEN [status |-> "OrderNotFound"]
    ELSE Panic

\* the reply a handler builds from the envelope it received
ResponseOf(request, envelope) ==
    IF request.type = "place-order"
    THEN PlaceOrderResponse(DummyResponse, envelope.messages, 1)
    ELSE CancelOrderResponse(envelope.messages)

\* what the outbox consumer did with one delivery: the outbox message it was
\* handed, the msg_id it read, whether has_id held, whether the envelope was
\* sent to a waiter, whether the delivery was acknowledged
Consumed(index, id, had_id, sent, was_acked) ==
    [index |-> index, id |-> id, had_id |-> had_id, sent |-> sent,
     acked |-> was_acked]

\* the outcome of the loop body of run_outbox_consumer
Step(sn, hs, at, entry) ==
    [senders |-> sn, handlers |-> hs, pc |-> at, entry |-> entry]

\* a wrong msg_id: the id of the request registered with the highest msg_id
MsgIdOfNewestWaiter(properties) ==
    IF DOMAIN senders = {} THEN ParseHyphenated(properties.correlation_id)
    ELSE CHOOSE id \in DOMAIN senders : \A other \in DOMAIN senders : id >= other

\* Uuid::from_str(delivery.properties.correlation_id().as_ref().unwrap().as_str())
MsgIdOf(properties) == ParseHyphenated(properties.correlation_id)

\* a wrong loop body: send_result is called without the has_id test
OutboxConsumerStepNoGate(sn, hs, index, message, ack_ok) ==
    IF message.properties.correlation_id = None
    THEN Step(sn, hs, "panicked", Consumed(index, 0, FALSE, FALSE, FALSE))
    ELSE LET outbox_env == FromJson(message.payload)
             msg_id == MsgIdOf(message.properties)
             r == SendResult(sn, hs, msg_id, outbox_env)
         IN IF r.panicked
            THEN Step(r.senders, r.handlers, "panicked",
                      Consumed(index, msg_id, HasId(sn, msg_id), FALSE, FALSE))
            ELSE Step(r.senders, r.handlers, IF ack_ok THEN "next" ELSE "failed",
                      Consumed(index, msg_id, HasId(sn, msg_id), r.sent, ack_ok))

\* a wrong loop body: the delivery is acknowledged whether or not its id is
\* registered
OutboxConsumerStepAckAlways(sn, hs, index, message, ack_ok) ==
    IF message.properties.correlation_id = None
    THEN Step(sn, hs, "panicked", Consumed(index, 0, FALSE, FALSE, FALSE))
    ELSE LET outbox_env == FromJson(message.payload)
             msg_id == MsgIdOf(message.properties)
         IN IF HasId(sn, msg_id)
            THEN LET r == SendResult(sn, hs, msg_id, outbox_env)
                 IN IF r.panicked
                    THEN Step(r.senders, r.handlers, "panicked",
                              Consumed(index, msg_id, TRUE, FALSE, FALSE))
                    ELSE Step(r.senders, r.handlers,
                              IF ack_ok THEN "next" ELSE "failed",
                              Consumed(index, msg_id, TRUE, r.sent, ack_ok))
            ELSE Step(sn, hs, IF ack_ok THEN "next" ELSE "failed",
                      Consumed(index, msg_id, FALSE, FALSE, ack_ok))

\* the loop body of run_outbox_consumer for one delivery
OutboxConsumerStep(sn, hs, index, message, ack_ok) ==
    IF message.properties.correlation_id = None
    THEN Step(sn, hs, "panicked", Consumed(index, 0, FALSE, FALSE, FALSE))
    ELSE LET outbox_env == FromJson(message.payload)
             msg_id == MsgIdOf(message.properties)
         IN IF HasId(sn, msg_id)
            THEN LET r == SendResult(sn, hs, msg_id, outbox_env)
                 IN IF r.panicked
                    THEN Step(r.senders, r.handlers, "panicked",
                              Consumed(index, msg_id, TRUE, FALSE, FALSE))
                    ELSE Step(r.senders, r.handlers,
                              IF ack_ok THEN "next" ELSE "failed",
                              Consumed(index, msg_id, TRUE, r.sent, ack_ok))
            ELSE Step(sn, hs, "next", Consumed(index, msg_id, FALSE, FALSE, FALSE))

\* _run before the server and the consumer start: an empty registry, no
\* request in flight
GatewayStarted ==
    /\ inbox_queue = <<>>
    /\ handlers = [h \in HandlerIds |-> IdleHandler]
    /\ senders = NewOutboxResults
    /\ gw_log = <<>>
    /\ gw_pc = "next"

\* run_ws_market_data_api before subscribe has yielded a delivery
SubscriberStarted == md_log = <<>>

(* ---- the state machine: calls on one OrderBook ---- *)

\* the book held in the variables
CurrentBook == Book(next_seq_id, buy_levels, sell_levels, by_uuid)

\* the record of a call
Call(op, order, order_id, new_volume, result, deals, pre) ==
    [op |-> op, order |-> order, order_id |-> order_id, new_volume |-> new_volume,
     result |-> result, deals |-> deals, pre |-> pre]

\* the placeholder of an order argument a call does not take
NoOrder == Order(0, Buy, 0, 0)

\* no result is held: the book is ready for the next call
Idle == last.op \in {"new", "none"}

\* the caller's view of a call: the book is assigned, the call is recorded
Returns(book, call) ==
    /\ next_seq_id' = book.next_seq_id
    /\ buy_levels' = book.buy_levels
    /\ sell_levels' = book.sell_levels
    /\ by_uuid' = book.by_uuid
    /\ last' = call
    /\ UNCHANGED exchange_vars
    /\ UNCHANGED gateway_vars
    /\ UNCHANGED subscriber_vars

Init ==
    /\ next_seq_id = NewBook.next_seq_id
    /\ buy_levels = NewBook.buy_levels
    /\ sell_levels = NewBook.sell_levels
    /\ by_uuid = NewBook.by_uuid
    /\ minted = 0
    /\ last = Call("new", NoOrder, 0, 0, "Ok", <<>>, NewBook)
    /\ ExchangeStarted
    /\ GatewayStarted
    /\ SubscriberStarted

\* book.place(Order::new(side, price, volume))
Place(side, price, volume) ==
    /\ Idle
    /\ minted < MaxOrders
    /\ minted' = minted + 1
    /\ LET order == Order(minted + 1, side, price, volume)
           r == PlaceOrder(CurrentBook, order)
       IN Returns(r.book, Call("place", order, order.id, 0, r.result, r.deals, CurrentBook))

\* book.cancel_order(order_id)
Cancel(order_id) ==
    /\ Idle
    /\ LET r == CancelOrder(CurrentBook, order_id)
       IN Returns(r.book, Call("cancel_order", NoOrder, order_id, 0, r.result, <<>>, CurrentBook))
    /\ UNCHANGED minted

\* book.change_order_volume(order_id, new_volume)
ChangeVolume(order_id, new_volume) ==
    /\ Idle
    /\ LET r == ChangeOrderVolume(CurrentBook, order_id, new_volume)
       IN Returns(r.book, Call("change_order_volume", NoOrder, order_id, new_volume,
                               r.result, <<>>, CurrentBook))
    /\ UNCHANGED minted

\* the caller has consumed the result of its call and goes on to the next one
Consume ==
    /\ ~Idle
    /\ last' = Call("none", NoOrder, 0, 0, "Ok", <<>>, NewBook)
    /\ UNCHANGED <<next_seq_id, buy_levels, sell_levels, by_uuid, minted>>
    /\ UNCHANGED exchange_vars
    /\ UNCHANGED gateway_vars
    /\ UNCHANGED subscriber_vars

Next ==
    \/ \E side \in Sides, price \in Prices, volume \in Volumes : Place(side, price, volume)
    \/ \E order_id \in OrderIds : Cancel(order_id)
    \/ \E order_id \in OrderIds, new_volume \in 0..MaxVolume : ChangeVolume(order_id, new_volume)
    \/ Consume

Spec == Init /\ [][Next]_vars

\* the same book and the same calls, the specification of the properties of
\* cancel_order, change_order_volume and get_order
SpecOrders == Init /\ [][Next]_vars

(* ---- the state machine: the consume loop of Exchange::run ---- *)

\* the inbox messages a delivery can carry, with a fresh msg_id
InboxMessages(msg_id) ==
    {PlaceOrderMessage(msg_id, pair, side, price, volume) :
        pair \in PairNames, side \in SideStrings,
        price \in 1..MaxExchangePrice, volume \in Volumes}
    \cup {CancelOrderMessage(msg_id, pair, order_id) :
            pair \in PairNames, order_id \in OrderIds}
    \cup {Malformed}

\* a wrong loop: the next delivery is taken while a publish is outstanding
CanConsumeNextEarly == pc \in {"next", "publish"}

\* the loop is at `consumer.next().await`
CanConsumeNext == pc = "next"

\* consumer.next() yields a delivery; it is decoded and dispatched
Receive(message) ==
    /\ CanConsumeNext
    /\ Len(consumed) < MaxInbox
    /\ consumed' = Append(consumed, message)
    /\ LET d == Dispatch(pairs, message, minted)
       IN /\ pairs' = d.pairs
          /\ minted' = d.minted
          /\ delivery' = Delivery(Len(consumed) + 1, message, d, pairs)
          /\ pc' = IF d.ok THEN "publish" ELSE "failed"
          /\ error' = d.error
    /\ UNCHANGED <<outbox_queue, acked>>
    /\ UNCHANGED add_pair_call
    /\ UNCHANGED book_vars
    /\ UNCHANGED gateway_vars
    /\ UNCHANGED subscriber_vars

\* consumer.next() yields an error: delivery.expect(..) panics
ConsumerFails ==
    /\ CanConsumeNext
    /\ pc' = "failed"
    /\ error' = "consumer"
    /\ UNCHANGED <<pairs, consumed, delivery, outbox_queue, acked, minted>>
    /\ UNCHANGED add_pair_call
    /\ UNCHANGED book_vars
    /\ UNCHANGED gateway_vars
    /\ UNCHANGED subscriber_vars

\* producing_channel.basic_publish(..).await succeeds
Publish ==
    /\ pc = "publish"
    /\ outbox_queue' = Append(outbox_queue, OutboxPublish(delivery.outbox))
    /\ pc' = "ack"
    /\ UNCHANGED <<pairs, consumed, delivery, acked, error, minted>>
    /\ UNCHANGED add_pair_call
    /\ UNCHANGED book_vars
    /\ UNCHANGED gateway_vars
    /\ UNCHANGED subscriber_vars

\* producing_channel.basic_publish(..).await? returns the error
PublishFails ==
    /\ pc = "publish"
    /\ pc' = "failed"
    /\ error' = "publish"
    /\ UNCHANGED <<pairs, consumed, delivery, outbox_queue, acked, minted>>
    /\ UNCHANGED add_pair_call
    /\ UNCHANGED book_vars
    /\ UNCHANGED gateway_vars
    /\ UNCHANGED subscriber_vars

\* a wrong loop: the delivery is acknowledged while its publish is outstanding
CanAckEarly == pc \in {"publish", "ack"}

\* the loop is at `consuming_channel.basic_ack(..).await`, past the publish
CanAck == pc = "ack"

\* consuming_channel.basic_ack(delivery.delivery_tag, ..).await succeeds
Ack ==
    /\ CanAck
    /\ acked' = Append(acked, delivery.tag)
    /\ pc' = "next"
    /\ UNCHANGED <<pairs, consumed, delivery, outbox_queue, error, minted>>
    /\ UNCHANGED add_pair_call
    /\ UNCHANGED book_vars
    /\ UNCHANGED gateway_vars
    /\ UNCHANGED subscriber_vars

\* consuming_channel.basic_ack(..).await? returns the error
AckFails ==
    /\ pc = "ack"
    /\ pc' = "failed"
    /\ error' = "ack"
    /\ UNCHANGED <<pairs, consumed, delivery, outbox_queue, acked, minted>>
    /\ UNCHANGED add_pair_call
    /\ UNCHANGED book_vars
    /\ UNCHANGED gateway_vars
    /\ UNCHANGED subscriber_vars

ExchangeInit == Init

ExchangeNext ==
    \/ \E message \in InboxMessages(Len(consumed) + 1) : Receive(message)
    \/ ConsumerFails
    \/ Publish
    \/ PublishFails
    \/ Ack
    \/ AckFails

SpecExchange == ExchangeInit /\ [][ExchangeNext]_vars

(* ---- the state machine: an Exchange with its pairs added by its owner ---- *)

\* the inbox messages of the deliveries: orders of volume 1 at price 1 and
\* cancels, for both pairs
PairMessages(msg_id) ==
    {PlaceOrderMessage(msg_id, pair, side, 1, 1) :
        pair \in PairNames, side \in SideStrings}
    \cup {CancelOrderMessage(msg_id, pair, order_id) :
            pair \in PairNames, order_id \in OrderIds}

\* add_pair borrows the Exchange mutably, as run does until it returns
CanAddPair == pc \in {"setup", "failed"}

\* exchange.add_pair(pair_name)
AddPairCalled(pair_name) ==
    /\ CanAddPair
    /\ LET r == AddPair(pairs, pair_name)
       IN /\ pairs' = r.pairs
          /\ add_pair_call' = AddPairCall(pair_name, r.result)
    /\ UNCHANGED <<consumed, delivery, outbox_queue, acked, pc, error, minted>>
    /\ UNCHANGED book_vars
    /\ UNCHANGED gateway_vars
    /\ UNCHANGED subscriber_vars

\* exchange.run() is called and reaches its consume loop
RunCalled ==
    /\ pc = "setup"
    /\ pc' = "next"
    /\ UNCHANGED <<pairs, consumed, delivery, outbox_queue, acked, error, minted,
                   add_pair_call>>
    /\ UNCHANGED book_vars
    /\ UNCHANGED gateway_vars
    /\ UNCHANGED subscriber_vars

PairsInit ==
    /\ next_seq_id = NewBook.next_seq_id
    /\ buy_levels = NewBook.buy_levels
    /\ sell_levels = NewBook.sell_levels
    /\ by_uuid = NewBook.by_uuid
    /\ minted = 0
    /\ last = Call("new", NoOrder, 0, 0, "Ok", <<>>, NewBook)
    /\ ExchangeCreated
    /\ GatewayStarted
    /\ SubscriberStarted

PairsNext ==
    \/ \E pair_name \in PairNames : AddPairCalled(pair_name)
    \/ RunCalled
    \/ \E message \in PairMessages(Len(consumed) + 1) : Receive(message)
    \/ ConsumerFails
    \/ Publish
    \/ Ack

SpecPairs == PairsInit /\ [][PairsNext]_vars

(* ---- the state machine: the gateway, the exchange and the outbox consumer ---- *)

\* the msg_id Uuid::new_v4 yields for the next request: a fresh one
NewMsgId == Cardinality({h \in HandlerIds : handlers[h].pc # "idle"}) + 1

\* the handlers take the requests in the order of their numbers
NextHandler(h) == handlers[h].pc = "idle" /\ \A g \in 1..(h - 1) : handlers[g].pc # "idle"

\* the outbox messages the consumer has been handed for the first time
Fresh == IF gw_log = <<>> THEN 0
         ELSE CHOOSE n \in 1..Len(outbox_queue) :
                  /\ \E k \in 1..Len(gw_log) : gw_log[k].index = n
                  /\ \A k \in 1..Len(gw_log) : gw_log[k].index <= n

\* a handler is handed a request, mints its msg_id and publishes the inbox
\* message
HandlerPublishes(h, request) ==
    /\ NextHandler(h)
    /\ RequestAccepted(request)
    /\ LET msg_id == NewMsgId
           message == InboxMessageOf(request, msg_id)
       IN /\ inbox_queue' = Append(inbox_queue, InboxPublish(message))
          /\ handlers' = [handlers EXCEPT ![h] =
                             Handler("published", request, msg_id, None, None)]
    /\ UNCHANGED <<senders, gw_log, gw_pc, minted>>
    /\ UNCHANGED book_vars
    /\ UNCHANGED exchange_vars
    /\ UNCHANGED subscriber_vars

\* wait_for_result: the channel is made and its sender inserted, the handler
\* awaits the receiver
HandlerRegisters(h) ==
    /\ handlers[h].pc = "published"
    /\ senders' = InsertSender(senders, handlers[h].msg_id, h)
    /\ handlers' = [handlers EXCEPT ![h].pc = "waiting"]
    /\ UNCHANGED <<inbox_queue, gw_log, gw_pc, minted>>
    /\ UNCHANGED book_vars
    /\ UNCHANGED exchange_vars
    /\ UNCHANGED subscriber_vars

\* receiver.await yields the envelope, the handler builds its reply
HandlerReplies(h) ==
    /\ handlers[h].pc = "waiting"
    /\ handlers[h].rx # None
    /\ handlers' = [handlers EXCEPT ![h] =
                       Handler("done", @.request, @.msg_id, @.rx,
                               ResponseOf(@.request, @.rx))]
    /\ UNCHANGED <<inbox_queue, senders, gw_log, gw_pc, minted>>
    /\ UNCHANGED book_vars
    /\ UNCHANGED exchange_vars
    /\ UNCHANGED subscriber_vars

\* the HTTP peer goes away: the handler's future is dropped at an await, and
\* with it the receiver if it was made
HandlerDropped(h) ==
    /\ handlers[h].pc \in {"published", "waiting"}
    /\ handlers' = [handlers EXCEPT ![h] =
                       Handler("dropped", @.request, @.msg_id, None, None)]
    /\ UNCHANGED <<inbox_queue, senders, gw_log, gw_pc, minted>>
    /\ UNCHANGED book_vars
    /\ UNCHANGED exchange_vars
    /\ UNCHANGED subscriber_vars

\* one pass of the loop body of Exchange::run on the next message of the
\* inbox queue: decode, dispatch, publish the envelope, acknowledge; a message
\* that fails to decode or names an unknown pair ends the loop
ExchangeHandles ==
    /\ CanConsumeNext
    /\ Len(consumed) < Len(inbox_queue)
    /\ LET message == InboxFromJson(inbox_queue[Len(consumed) + 1].payload)
           tag == Len(consumed) + 1
           d == Dispatch(pairs, message, minted)
       IN /\ consumed' = Append(consumed, message)
          /\ pairs' = d.pairs
          /\ minted' = d.minted
          /\ delivery' = Delivery(tag, message, d, pairs)
          /\ error' = d.error
          /\ IF d.ok
             THEN /\ outbox_queue' = Append(outbox_queue, OutboxPublish(d.outbox))
                  /\ acked' = Append(acked, tag)
                  /\ pc' = "next"
             ELSE /\ pc' = "failed"
                  /\ UNCHANGED <<outbox_queue, acked>>
    /\ UNCHANGED add_pair_call
    /\ UNCHANGED book_vars
    /\ UNCHANGED gateway_vars
    /\ UNCHANGED subscriber_vars

\* consumer.next() of run_outbox_consumer yields the delivery of an outbox
\* message: the next one of the queue, or once more the one it yielded last
OutboxConsumerReceives(index, ack_ok) ==
    /\ gw_pc = "next"
    /\ \/ index = Fresh + 1
       \/ index = Fresh /\ Len(gw_log) - Fresh < MaxRedeliveries
    /\ LET r == OutboxConsumerStep(senders, handlers, index, outbox_queue[index], ack_ok)
       IN /\ senders' = r.senders
          /\ handlers' = r.handlers
          /\ gw_pc' = r.pc
          /\ gw_log' = Append(gw_log, r.entry)
    /\ UNCHANGED <<inbox_queue, minted>>
    /\ UNCHANGED book_vars
    /\ UNCHANGED exchange_vars
    /\ UNCHANGED subscriber_vars

\* channel.basic_ack(..).await? of the consumer returns Ok or the error
AckOutcomes == BOOLEAN

GatewayInit == Init

GatewayNext ==
    \/ \E h \in HandlerIds, request \in Requests : HandlerPublishes(h, request)
    \/ \E h \in HandlerIds : HandlerRegisters(h)
    \/ \E h \in HandlerIds : HandlerReplies(h)
    \/ \E h \in HandlerIds : HandlerDropped(h)
    \/ ExchangeHandles
    \/ \E index \in 1..Len(outbox_queue), ack_ok \in AckOutcomes :
           OutboxConsumerReceives(index, ack_ok)

SpecGateway == GatewayInit /\ [][GatewayNext]_vars

(* ---- the state machine: the gateway and the market-data subscriber, both
        consumers of the queue "outbox" ---- *)

\* what OutboxConsumer::subscribe did with one delivery: the envelope it
\* decoded and passed to the handler, and whether basic_ack returned Ok
Subscribed(index, envelope, was_acked) ==
    [index |-> index, envelope |-> envelope, acked |-> was_acked]

\* the loop of subscribe has not returned: every basic_ack so far returned Ok
SubscriberRunning == \A k \in 1..Len(md_log) : md_log[k].acked

\* the messages of the queue "outbox" that left it for a consumer; the two
\* basic_consume calls name the same queue, which hands each message to one
\* of its consumers; a message whose basic_ack failed in subscribe returns to
\* the queue when subscribe returns and its channel is dropped
Delivered ==
    Cardinality({gw_log[k].index : k \in 1..Len(gw_log)}
                \cup {md_log[k].index : k \in {j \in 1..Len(md_log) : md_log[j].acked}})

\* consumer.next() of run_outbox_consumer yields the next message of the queue
OutboxConsumerTakes(ack_ok) ==
    /\ gw_pc = "next"
    /\ Delivered < Len(outbox_queue)
    /\ LET index == Delivered + 1
           r == OutboxConsumerStep(senders, handlers, index, outbox_queue[index], ack_ok)
       IN /\ senders' = r.senders
          /\ handlers' = r.handlers
          /\ gw_pc' = r.pc
          /\ gw_log' = Append(gw_log, r.entry)
    /\ UNCHANGED <<inbox_queue, minted>>
    /\ UNCHANGED book_vars
    /\ UNCHANGED exchange_vars
    /\ UNCHANGED subscriber_vars

\* consumer.next() of subscribe yields the next message of the queue: it is
\* decoded, passed to the handler of run_ws_market_data_api, which logs it and
\* returns Ok, and acknowledged
SubscriberTakes(ack_ok) ==
    /\ SubscriberRunning
    /\ Delivered < Len(outbox_queue)
    /\ LET index == Delivered + 1
           outbox_env == FromJson(outbox_queue[index].payload)
       IN md_log' = Append(md_log, Subscribed(index, outbox_env, ack_ok))
    /\ UNCHANGED minted
    /\ UNCHANGED book_vars
    /\ UNCHANGED exchange_vars
    /\ UNCHANGED gateway_vars

SubscriberInit == Init

SubscriberNext ==
    \/ \E h \in HandlerIds, request \in Requests : HandlerPublishes(h, request)
    \/ \E h \in HandlerIds : HandlerRegisters(h)
    \/ \E h \in HandlerIds : HandlerReplies(h)
    \/ \E h \in HandlerIds : HandlerDropped(h)
    \/ ExchangeHandles
    \/ \E ack_ok \in AckOutcomes : OutboxConsumerTakes(ack_ok)
    \/ \E ack_ok \in AckOutcomes : SubscriberTakes(ack_ok)

SpecSubscriber == SubscriberInit /\ [][SubscriberNext]_vars

(* ---- vocabulary of the properties ---- *)

\* the orders resting on one side, and on both
OrdersOf(tree) == {tree[i].order : i \in 1..Len(tree)}
Resting == OrdersOf(buy_levels) \cup OrdersOf(sell_levels)
RestingIds == {o.id : o \in Resting}

\* the side the last placed order was matched against, before and after the call
MakersBefore == Tree(last.pre, Opposite(last.order.side))
MakersAfter == Tree(CurrentBook, Opposite(last.order.side))

\* the volume of the first n deals of a list
RECURSIVE SumVolumes(_, _)
SumVolumes(deals, n) == IF n = 0 THEN 0 ELSE SumVolumes(deals, n - 1) + deals[n].volume

\* the volume traded against the order with this id in a list of deals
RECURSIVE TradedWith(_, _, _)
TradedWith(deals, n, id) ==
    IF n = 0 THEN 0
    ELSE TradedWith(deals, n - 1, id)
         + (IF deals[n].maker_order.id = id THEN deals[n].volume ELSE 0)

\* the prices of a taker and a maker cross
Crossable(taker, maker) ==
    IF taker.side = Buy THEN maker.price <= taker.price ELSE maker.price >= taker.price

(* ---- C1 ---- *)

\* C1: after every call either one side is empty or every resting buy price is
\* strictly lower than every resting sell price.
C1_NoCross ==
    \A i \in 1..Len(buy_levels), j \in 1..Len(sell_levels) :
        buy_levels[i].order.price < sell_levels[j].order.price

\* a place that traded and left orders resting on both sides
C1_Witness ==
    /\ last.op = "place"
    /\ last.deals # <<>>
    /\ buy_levels # <<>>
    /\ sell_levels # <<>>

(* ---- C2 ---- *)

\* C2: the keys of by_uuid are the ids of the resting orders, no id rests twice,
\* and by_uuid[id] is a key whose lookup in the tree of its side yields the
\* order with that id.
C2_Bijection ==
    /\ LET ids == RestingIds
       IN /\ DOMAIN by_uuid = ids
          /\ Cardinality(ids) = Len(buy_levels) + Len(sell_levels)
    /\ \A id \in DOMAIN by_uuid :
          LET key == by_uuid[id]
              tree == IF key.side = Sell THEN sell_levels ELSE buy_levels
              i == TreeFind(tree, key)
          IN /\ i # 0
             /\ tree[i].order.id = id
             /\ tree[i].order.side = key.side

\* a place that removed a filled maker and left its residual and another order
C2_Witness ==
    /\ last.op = "place"
    /\ \E id \in DOMAIN last.pre.by_uuid : id \notin DOMAIN by_uuid
    /\ last.order.id \in DOMAIN by_uuid
    /\ Cardinality(DOMAIN by_uuid) >= 2

(* ---- C3 ---- *)

C4_BestPriceFirst ==
    (last.op = "place" /\ last.deals # <<>>) =>
        LET first == last.deals[1].maker_order
        IN /\ first \in OrdersOf(MakersBefore)
           /\ first.side = Opposite(last.order.side)
           /\ \A o \in OrdersOf(MakersBefore) :
                 IF last.order.side = Buy THEN first.price <= o.price
                 ELSE first.price >= o.price
           /\ \A j \in 2..Len(last.deals) :
                 IF last.order.side = Buy
                 THEN last.deals[j - 1].maker_order.price <= last.deals[j].maker_order.price
                 ELSE last.deals[j - 1].maker_order.price >= last.deals[j].maker_order.price

\* a sell traded with two buys of different prices, inserted worst price first
C4_Witness ==
    /\ last.op = "place"
    /\ last.order.side = Sell
    /\ Len(last.deals) = 2
    /\ last.deals[1].maker_order.price > last.deals[2].maker_order.price
    /\ last.deals[1].maker_order.id > last.deals[2].maker_order.id

(* ---- C5 ---- *)

\* C5: the k-th deal of a place has the volume min(maker volume before the
\* deal, taker volume before the deal); its maker_order is the maker as it
\* rested before the call and its taker_order is the incoming order with the
\* volumes of the k-1 earlier deals subtracted.
C5_DealSnapshots ==
    last.op = "place" =>
        \A k \in 1..Len(last.deals) :
            LET d == last.deals[k]
                remaining == last.order.volume - SumVolumes(last.deals, k - 1)
            IN /\ d.maker_order \in OrdersOf(MakersBefore)
               /\ d.taker_order = [last.order EXCEPT !.volume = remaining]
               /\ d.volume = Min(d.maker_order.volume, remaining)
               /\ \A i \in 1..(k - 1) : last.deals[i].maker_order.id # d.maker_order.id

\* a place whose second deal carries a taker snapshot with a reduced volume
C5_Witness ==
    /\ last.op = "place"
    /\ Len(last.deals) >= 2
    /\ last.deals[2].taker_order.volume < last.order.volume
    /\ last.deals[2].volume < last.deals[2].maker_order.volume

(* ---- C6 ---- *)

\* the volume of the last placed order that rests after the call
ResidualVolume ==
    LET own == {o \in Resting : o.id = last.order.id}
    IN IF own = {} THEN 0 ELSE (CHOOSE o \in own : TRUE).volume

\* C6: the deal volumes of a place plus the resting residual add up to the
\* incoming volume; the volume traded against a maker is at most its volume
\* before the call, equal exactly when the maker left the book, and a maker
\* that stays has its volume reduced by the traded amount.
C6_VolumeConservation ==
    last.op = "place" =>
        /\ SumVolumes(last.deals, Len(last.deals)) + ResidualVolume = last.order.volume
        /\ \A mk \in OrdersOf(MakersBefore) :
              LET traded == TradedWith(last.deals, Len(last.deals), mk.id)
              IN /\ traded <= mk.volume
                 /\ (traded = mk.volume) <=> (mk.id \notin RestingIds)
                 /\ mk.id \in RestingIds =>
                       [mk EXCEPT !.volume = mk.volume - traded] \in OrdersOf(MakersAfter)

\* a place that filled one maker and left the next one partially filled
C6_Witness ==
    /\ last.op = "place"
    /\ Len(last.deals) = 2
    /\ last.deals[1].maker_order.id \notin RestingIds
    /\ last.deals[2].maker_order.id \in RestingIds
    /\ ResidualVolume = 0

(* ---- C7 ---- *)

\* C7: every deal of a place is price-compatible, and from the first maker in
\* iteration order that does not cross onwards no maker is in a deal and every
\* one still rests unchanged.
C7_PriceCompatible ==
    last.op = "place" =>
        /\ \A j \in 1..Len(last.deals) :
              Crossable(last.order, last.deals[j].maker_order)
        /\ \A k \in 1..Len(MakersBefore) :
              ~Crossable(last.order, MakersBefore[k].order) =>
                  \A m \in k..Len(MakersBefore) :
                      /\ \A j \in 1..Len(last.deals) :
                            last.deals[j].maker_order.id # MakersBefore[m].order.id
                      /\ MakersBefore[m].order \in OrdersOf(MakersAfter)

\* a sell that traded and stopped at a buy priced below it
C7_Witness ==
    /\ last.op = "place"
    /\ last.order.side = Sell
    /\ last.deals # <<>>
    /\ last.order.id \in RestingIds
    /\ \E o \in OrdersOf(MakersBefore) : o.price < last.order.price

(* ---- C8 ---- *)

\* one side iterates in price-time order: prices never improve along the
\* iteration, equal prices come in ascending seq_id, which is the order in
\* which the orders were placed, and the entries carry the key of their order
SideOrdered(tree, side) ==
    /\ \A i \in 1..Len(tree), j \in 1..Len(tree) :
          i < j =>
              /\ IF side = Buy THEN tree[i].order.price >= tree[j].order.price
                 ELSE tree[i].order.price <= tree[j].order.price
              /\ tree[i].order.price = tree[j].order.price =>
                    /\ tree[i].key.seq_id < tree[j].key.seq_id
                    /\ tree[i].order.id < tree[j].order.id
              /\ tree[i].key # tree[j].key
    /\ \A i \in 1..Len(tree) :
          /\ tree[i].key.side = side
          /\ tree[i].order.side = side
          /\ tree[i].key.price = tree[i].order.price
          /\ tree[i].key.seq_id < next_seq_id

C9_PositiveVolume ==
    /\ \A o \in Resting : o.volume > 0
    /\ last.op = "place" =>
          /\ \A j \in 1..Len(last.deals) :
                last.deals[j].volume = last.deals[j].maker_order.volume =>
                    last.deals[j].maker_order.id \notin RestingIds
          /\ SumVolumes(last.deals, Len(last.deals)) = last.order.volume =>
                last.order.id \notin RestingIds
    /\ (last.op = "change_order_volume" /\ last.new_volume = 0) =>
          /\ last.result = "ZeroVolume"
          /\ CurrentBook = last.pre

\* a change_order_volume to 0 was called on a resting order
C9_Witness ==
    /\ last.op = "change_order_volume"
    /\ last.new_volume = 0
    /\ last.order_id \in RestingIds

(* ---- C10 ---- *)

\* a tree without the entry of one order id, the other entries in place
Without(tree, id) == SelectSeq(tree, LAMBDA e : e.order.id # id)

\* C10: after a successful cancel_order(id), get_order(id) is None, the order
\* is in neither tree nor in by_uuid, and the other entries of both trees (in
\* their iteration order), the other entries of by_uuid and next_seq_id are
\* as before the call.
C10_CancelFrame ==
    (last.op = "cancel_order" /\ last.result = "Ok") =>
        /\ GetOrder(CurrentBook, last.order_id) = None
        /\ last.order_id \notin RestingIds
        /\ last.order_id \notin DOMAIN by_uuid
        /\ last.order_id \in DOMAIN last.pre.by_uuid
        /\ buy_levels = Without(last.pre.buy_levels, last.order_id)
        /\ sell_levels = Without(last.pre.sell_levels, last.order_id)
        /\ by_uuid = [x \in DOMAIN last.pre.by_uuid \ {last.order_id} |-> last.pre.by_uuid[x]]
        /\ next_seq_id = last.pre.next_seq_id

\* the second of three buys, at the price of the first, was cancelled
C10_Witness ==
    /\ last.op = "cancel_order"
    /\ last.result = "Ok"
    /\ Len(last.pre.buy_levels) = 3
    /\ last.pre.buy_levels[2].order.id = last.order_id
    /\ last.pre.buy_levels[1].order.price = last.pre.buy_levels[2].order.price

(* ---- C11 ---- *)

\* C11: cancel_order of an id that does not rest in the book (never placed,
\* cancelled before or filled) returns OrderNotFound and leaves both trees,
\* by_uuid and next_seq_id as they were.
C11_CancelNotFound ==
    (last.op = "cancel_order" /\ last.order_id \notin DOMAIN last.pre.by_uuid) =>
        /\ last.result = "OrderNotFound"
        /\ CurrentBook = last.pre

\* cancel_order was called with the id of an order that was placed and has
\* left the book, while other orders rest
C11_Witness ==
    /\ last.op = "cancel_order"
    /\ last.order_id <= minted
    /\ last.order_id \notin DOMAIN last.pre.by_uuid
    /\ last.result = "OrderNotFound"
    /\ Resting # {}

(* ---- C12 ---- *)

\* C12: change_order_volume returns ZeroVolume for new_volume 0, whether or not
\* the id rests, and OrderNotFound for a positive volume and an id that does
\* not rest; in both cases the book is as it was.
C12_ChangeVolumeErrors ==
    last.op = "change_order_volume" =>
        /\ last.new_volume = 0 => last.result = "ZeroVolume"
        /\ (last.new_volume > 0 /\ last.order_id \notin DOMAIN last.pre.by_uuid) =>
              last.result = "OrderNotFound"
        /\ (last.new_volume > 0 /\ last.order_id \in DOMAIN last.pre.by_uuid) =>
              last.result = "Ok"
        /\ last.result # "Ok" => CurrentBook = last.pre

\* change_order_volume to 0 was called with an id that does not rest
C12_Witness ==
    /\ last.op = "change_order_volume"
    /\ last.new_volume = 0
    /\ last.order_id \notin DOMAIN last.pre.by_uuid
    /\ last.result = "ZeroVolume"
    /\ Resting # {}

(* ---- C13 ---- *)

\* a tree with the volume of one order id set, everything else in place
WithVolume(tree, id, volume) ==
    [i \in 1..Len(tree) |->
        IF tree[i].order.id = id
        THEN Entry(tree[i].key, [tree[i].order EXCEPT !.volume = volume])
        ELSE tree[i]]

\* C13: a successful change_order_volume(id, v) sets the volume of that order
\* to v and changes nothing else: the entry keeps its key and its place in the
\* iteration order (ahead of the later orders of its price), and the other
\* entries, by_uuid and next_seq_id are as before the call.
C13_ChangeVolumeFrame ==
    (last.op = "change_order_volume" /\ last.result = "Ok") =>
        /\ buy_levels = WithVolume(last.pre.buy_levels, last.order_id, last.new_volume)
        /\ sell_levels = WithVolume(last.pre.sell_levels, last.order_id, last.new_volume)
        /\ by_uuid = last.pre.by_uuid
        /\ next_seq_id = last.pre.next_seq_id
        /\ GetOrder(CurrentBook, last.order_id).volume = last.new_volume

\* the volume of the older of two sells of one price was raised, and it is
\* still ahead of the newer one
C13_Witness ==
    /\ last.op = "change_order_volume"
    /\ last.result = "Ok"
    /\ Len(sell_levels) >= 2
    /\ sell_levels[1].order.id = last.order_id
    /\ sell_levels[1].order.price = sell_levels[2].order.price
    /\ last.pre.sell_levels[1].order.volume < last.new_volume

(* ---- C14 ---- *)

\* C14: get_order(id) is the resting order with that id, with its current
\* volume (what a partial fill left of a maker, what change_order_volume set),
\* when the order rests, and None when it does not.
C14_GetOrder ==
    /\ LET book == CurrentBook
           resting == Resting
           ids == {o.id : o \in resting}
       IN \A id \in OrderIds :
              LET got == GetOrder(book, id)
              IN IF id \in ids
                 THEN got \in resting /\ got.id = id
                 ELSE got = None
    /\ last.op = "place" =>
          \A j \in 1..Len(last.deals) :
              LET maker == last.deals[j].maker_order
              IN IF last.deals[j].volume < maker.volume
                 THEN GetOrder(CurrentBook, maker.id) =
                          [maker EXCEPT !.volume = maker.volume - last.deals[j].volume]
                 ELSE GetOrder(CurrentBook, maker.id) = None
    /\ (last.op = "change_order_volume" /\ last.result = "Ok") =>
          GetOrder(CurrentBook, last.order_id) =
              [GetOrder(last.pre, last.order_id) EXCEPT !.volume = last.new_volume]
    /\ (last.op = "cancel_order" /\ last.result = "Ok") =>
          GetOrder(CurrentBook, last.order_id) = None

\* a place filled one maker and left part of another, which get_order returns
C14_Witness ==
    /\ last.op = "place"
    /\ Len(last.deals) = 2
    /\ GetOrder(CurrentBook, last.deals[1].maker_order.id) = None
    /\ GetOrder(CurrentBook, last.deals[2].maker_order.id) # None
    /\ GetOrder(CurrentBook, last.deals[2].maker_order.id).volume
          < last.deals[2].maker_order.volume

(* ---- vocabulary of the exchange properties ---- *)

\* the envelope a subscriber decodes from the i-th outbox message
Env(i) == FromJson(outbox_queue[i].payload)

\* the ids of the orders resting in a book
IdsIn(book) == {o.id : o \in OrdersOf(book.buy_levels) \cup OrdersOf(book.sell_levels)}

\* the loop body has dispatched a message of this type for a known pair
Handled(type) ==
    /\ delivery.tag # 0
    /\ delivery.ok
    /\ delivery.message.type = type

(* ---- C15 ---- *)

\* C15: the envelope of a PlaceOrder for a known pair is one OrderPlaced
\* followed by one OrderFilled per deal that place returned, in the order of
\* the deals, and nothing else; the OrderPlaced carries the request and the id
\* of the new order, which is the taker of every deal and, when a residual is
\* left, the order that rests in the book of the pair with that residual.
C15_PlaceEnvelope ==
    Handled("PlaceOrder") =>
        LET m == delivery.message
            msgs == delivery.outbox.messages
            deals == delivery.deals
            rest == m.volume - SumVolumes(deals, Len(deals))
            side == IF m.side = "buy" THEN Buy ELSE Sell
        IN /\ Len(msgs) = 1 + Len(deals)
           /\ msgs[1].type = "OrderPlaced"
           /\ msgs[1].pair = m.pair
           /\ msgs[1].side = m.side
           /\ msgs[1].price = m.price
           /\ msgs[1].volume = m.volume
           /\ msgs[1].order_id \notin IdsIn(delivery.pre[m.pair])
           /\ \A i \in 1..Len(deals) :
                 /\ msgs[i + 1] = [type |-> "OrderFilled",
                                   maker_order |-> deals[i].maker_order,
                                   taker_order |-> deals[i].taker_order,
                                   volume |-> deals[i].volume]
                 /\ deals[i].taker_order.id = msgs[1].order_id
           /\ IF rest > 0
              THEN GetOrder(pairs[m.pair], msgs[1].order_id)
                       = Order(msgs[1].order_id, side, m.price, rest)
              ELSE msgs[1].order_id \notin IdsIn(pairs[m.pair])
           /\ pc = "ack" => Env(Len(outbox_queue)) = delivery.outbox

\* the envelope of a PlaceOrder that traded with two makers was published
C15_Witness ==
    /\ Handled("PlaceOrder")
    /\ pc = "ack"
    /\ Len(delivery.deals) = 2
    /\ Len(Env(Len(outbox_queue)).messages) = 3

(* ---- C16 ---- *)

\* C16: the envelope of a CancelOrder for a known pair has exactly one
\* message: OrderCancelled with the requested pair and id when that order
\* rested in the pair's book, which then holds the other orders only, and
\* OrderNotFound with the requested pair and id otherwise, the book unchanged.
C16_CancelEnvelope ==
    Handled("CancelOrder") =>
        LET m == delivery.message
            msgs == delivery.outbox.messages
            before == delivery.pre[m.pair]
            after == pairs[m.pair]
        IN /\ Len(msgs) = 1
           /\ IF m.order_id \in IdsIn(before)
              THEN /\ msgs[1] = [type |-> "OrderCancelled", pair |-> m.pair,
                                 order_id |-> m.order_id]
                   /\ after.buy_levels = Without(before.buy_levels, m.order_id)
                   /\ after.sell_levels = Without(before.sell_levels, m.order_id)
                   /\ m.order_id \notin DOMAIN after.by_uuid
                   /\ m.order_id \notin IdsIn(after)
              ELSE /\ msgs[1] = [type |-> "OrderNotFound", pair |-> m.pair,
                                 order_id |-> m.order_id]
                   /\ pairs = delivery.pre
           /\ pc = "ack" => Env(Len(outbox_queue)) = delivery.outbox

\* an OrderCancelled was published for one of two resting orders
C16_Witness ==
    /\ Handled("CancelOrder")
    /\ pc = "ack"
    /\ Env(Len(outbox_queue)).messages[1].type = "OrderCancelled"
    /\ IdsIn(pairs[delivery.message.pair]) # {}

(* ---- C17 ---- *)

\* C17: the envelope built for a delivery and the envelope published for it
\* carry the msg_id of that delivery's inbox message as inbox_correlation_id,
\* and the correlation_id property of every outbox publish is the hyphenated
\* text of the inbox_correlation_id in its body.
C17_CorrelationId ==
    /\ (delivery.tag # 0 /\ delivery.ok) =>
          delivery.outbox.inbox_correlation_id = delivery.message.msg_id
    /\ pc = "ack" =>
          /\ Env(Len(outbox_queue)).inbox_correlation_id = delivery.message.msg_id
          /\ outbox_queue[Len(outbox_queue)].properties.correlation_id
                = [hyphenated |-> delivery.message.msg_id]
    /\ \A i \in 1..Len(outbox_queue) :
          outbox_queue[i].properties.correlation_id
              = [hyphenated |-> Env(i).inbox_correlation_id]

\* the envelope of the second inbox message was published
C17_Witness ==
    /\ pc = "ack"
    /\ Len(outbox_queue) = 2
    /\ delivery.message.msg_id = 2
    /\ ParseHyphenated(outbox_queue[2].properties.correlation_id) = 2

(* ---- C18 ---- *)

\* the i-th envelope reports an order placed with a residual left resting
PlacedResting(i) ==
    /\ Env(i).messages[1].type = "OrderPlaced"
    /\ Env(i).messages[1].volume >
          SumVolumes(SubSeq(Env(i).messages, 2, Len(Env(i).messages)),
                     Len(Env(i).messages) - 1)

\* the i-th envelope answers a CancelOrder for this pair and order id
CancelReply(i, pair, order_id) ==
    /\ Env(i).messages[1].type \in {"OrderCancelled", "OrderNotFound"}
    /\ Env(i).messages[1].pair = pair
    /\ Env(i).messages[1].order_id = order_id

\* the i-th envelope reports a deal that took all that was left of this maker
FillsUp(i, order_id) ==
    \E k \in 1..Len(Env(i).messages) :
        /\ Env(i).messages[k].type = "OrderFilled"
        /\ Env(i).messages[k].maker_order.id = order_id
        /\ Env(i).messages[k].volume = Env(i).messages[k].maker_order.volume

\* C18: after an OrderPlaced that left order X resting in a pair, the first
\* CancelOrder of X for that pair is answered OrderCancelled unless an envelope
\* in between reports X filled up, and every later CancelOrder of X for that
\* pair is answered OrderNotFound.
C18_CancelRoundTrip ==
    \A i \in 1..Len(outbox_queue), j \in 1..Len(outbox_queue) :
        LET x == Env(i).messages[1].order_id
            pair == Env(i).messages[1].pair
            between == (i + 1)..(j - 1)
        IN (i < j /\ PlacedResting(i) /\ CancelReply(j, pair, x)) =>
              IF \E k \in between : CancelReply(k, pair, x)
              THEN Env(j).messages[1].type = "OrderNotFound"
              ELSE IF \E k \in between : FillsUp(k, x)
                   THEN Env(j).messages[1].type = "OrderNotFound"
                   ELSE Env(j).messages[1].type = "OrderCancelled"

\* placed and resting, then cancelled, then not found
C18_Witness ==
    /\ Len(outbox_queue) = 3
    /\ PlacedResting(1)
    /\ CancelReply(2, Env(1).messages[1].pair, Env(1).messages[1].order_id)
    /\ CancelReply(3, Env(1).messages[1].pair, Env(1).messages[1].order_id)
    /\ Env(2).messages[1].type = "OrderCancelled"
    /\ Env(3).messages[1].type = "OrderNotFound"

(* ---- C19 ---- *)

\* the loop body is past a message that names a pair that was never added
UnknownPairConsumed ==
    /\ delivery.tag # 0
    /\ delivery.message.type \in {"PlaceOrder", "CancelOrder"}
    /\ delivery.message.pair \notin DOMAIN delivery.pre

\* C19: a PlaceOrder or CancelOrder naming a pair that was never added is
\* dropped: no envelope is published for it, the books are unchanged, its
\* delivery is acknowledged and the loop waits for the next delivery.
C19_UnknownPairDropped ==
    UnknownPairConsumed =>
        /\ Len(outbox_queue) = delivery.tag - 1
        /\ pairs = delivery.pre
        /\ \E k \in 1..Len(acked) : acked[k] = delivery.tag
        /\ pc = "next"

(* ---- C20 ---- *)

\* the i-th envelope holds the events of the i-th consumed inbox message
EventsOf(i) ==
    /\ Env(i).inbox_correlation_id = consumed[i].msg_id
    /\ IF consumed[i].type = "PlaceOrder"
       THEN /\ Env(i).messages[1].type = "OrderPlaced"
            /\ Env(i).messages[1].pair = consumed[i].pair
            /\ Env(i).messages[1].price = consumed[i].price
            /\ Env(i).messages[1].volume = consumed[i].volume
            /\ \A k \in 2..Len(Env(i).messages) : Env(i).messages[k].type = "OrderFilled"
       ELSE /\ Len(Env(i).messages) = 1
            /\ CancelReply(i, consumed[i].pair, consumed[i].order_id)

\* C20: at most one consumed delivery has no envelope published yet, and only
\* while the loop body works on it (or has failed on it); the i-th published
\* envelope is the envelope of the i-th consumed message, so the envelopes and
\* their events are in the order of consumption.
C20_OneAtATime ==
    /\ Len(outbox_queue) <= Len(consumed)
    /\ Len(consumed) <= Len(outbox_queue) + 1
    /\ Len(consumed) = Len(outbox_queue) + 1 => pc \in {"publish", "failed"}
    /\ pc = "publish" => Len(consumed) = Len(outbox_queue) + 1
    /\ \A i \in 1..Len(outbox_queue) :
          /\ consumed[i].type \in {"PlaceOrder", "CancelOrder"}
          /\ EventsOf(i)

\* three messages were consumed and their three envelopes published in order
C20_Witness ==
    /\ Len(outbox_queue) = 3
    /\ Len(consumed) = 3
    /\ consumed[1].type = "PlaceOrder"
    /\ consumed[2].type = "CancelOrder"
    /\ consumed[3].type = "PlaceOrder"
    /\ Len(Env(3).messages) = 1
    /\ pc = "next"

(* ---- C21 ---- *)

\* the order ids minted before the loop body took its current delivery
MintedBefore ==
    IF delivery.ok /\ delivery.message.type = "PlaceOrder" THEN minted - 1 ELSE minted

\* C21: the k-th acknowledged delivery is the k-th consumed one and its
\* envelope is the k-th published message, so an acknowledgement never comes
\* before the publish; when the current delivery is acknowledged the books are
\* the books its message produced; once the loop has failed on a delivery
\* (decode, unknown pair, publish or ack error) that delivery is not among the
\* acknowledged ones.
C21_AckAfterPublish ==
    /\ Len(acked) <= Len(outbox_queue)
    /\ \A k \in 1..Len(acked) :
          /\ acked[k] = k
          /\ Env(k).inbox_correlation_id = consumed[k].msg_id
    /\ (delivery.tag # 0 /\ \E k \in 1..Len(acked) : acked[k] = delivery.tag) =>
          /\ delivery.ok
          /\ pairs = Dispatch(delivery.pre, delivery.message, MintedBefore).pairs
          /\ Env(delivery.tag) = delivery.outbox
    /\ (pc = "failed" /\ error # "consumer") =>
          /\ delivery.tag = Len(consumed)
          /\ \A k \in 1..Len(acked) : acked[k] # delivery.tag
    /\ (pc = "failed" /\ error \in {"decode", "invalid pair"}) =>
          /\ pairs = delivery.pre
          /\ Len(outbox_queue) = delivery.tag - 1

\* one delivery was acknowledged, then the publish of the next one failed
C21_Witness ==
    /\ pc = "failed"
    /\ error = "publish"
    /\ acked = <<1>>
    /\ delivery.tag = 2
    /\ pairs # delivery.pre

(* ---- vocabulary of the gateway properties ---- *)

\* the inbox message the i-th publish to the inbox queue carries
InboxMessage(i) == InboxFromJson(inbox_queue[i].payload)

\* the handler that minted this msg_id
HandlerOf(id) == CHOOSE h \in HandlerIds : handlers[h].msg_id = id

\* the registry holds no sender for this id: no entry, or an emptied cell
NoSlot(id) == ~HasId(senders, id) \/ senders[id] = None

\* the last thing the outbox consumer did
LastConsumed(log) == log[Len(log)]

(* ---- C22 ---- *)

\* C22: once the consumer has sent an envelope to the waiter of an id, the
\* registry has no entry for that id, so has_id(id) is false and every later
\* delivery for that id finds no entry.
C22_DeliverRemovesEntry ==
    \A k \in 1..Len(gw_log) :
        gw_log[k].sent =>
            /\ ~HasId(senders, gw_log[k].id)
            /\ \A j \in (k + 1)..Len(gw_log) :
                  gw_log[j].id = gw_log[k].id => ~gw_log[j].had_id

(* ---- C23 ---- *)

\* C23: when the outbox consumer handles a delivery whose id has no sender in
\* the registry (no entry, or a cell already emptied), the registry and every
\* handler, with what its receiver holds, stay as they were, and the consumer
\* does not panic.
C23_NoSlotDropped ==
    [][(gw_log' # gw_log /\ NoSlot(LastConsumed(gw_log').id)) =>
          /\ senders' = senders
          /\ handlers' = handlers
          /\ gw_pc' # "panicked"
          /\ ~LastConsumed(gw_log').sent]_vars

\* the consumer has handled an envelope whose id was not registered yet and
\* one whose cell was already emptied, and is running
C23_Witness ==
    /\ gw_pc = "next"
    /\ \E k \in 1..Len(gw_log) : ~gw_log[k].had_id
    /\ \E k \in 1..Len(gw_log) :
          /\ gw_log[k].had_id
          /\ ~gw_log[k].sent
          /\ \E j \in 1..(k - 1) : gw_log[j].id = gw_log[k].id /\ gw_log[j].sent

(* ---- C24 ---- *)

\* C24: a handler that was dropped has no entry in the registry, and the
\* outbox consumer does not panic on the envelope of a dropped handler.
C24_DroppedWaiterRemoved ==
    /\ \A h \in HandlerIds :
          handlers[h].pc = "dropped" => ~HasId(senders, handlers[h].msg_id)
    /\ gw_pc # "panicked"

(* ---- C25 ---- *)

\* C25: the envelope a handler's receiver holds, and the one its reply was
\* built from, carries the handler's own msg_id as inbox_correlation_id and is
\* the envelope the exchange published for that handler's inbox message; the
\* reply of a place-order names the order id of that envelope's OrderPlaced.
C25_OwnEnvelope ==
    \A h \in HandlerIds :
        handlers[h].rx # None =>
            /\ handlers[h].rx.inbox_correlation_id = handlers[h].msg_id
            /\ \E i \in 1..Len(outbox_queue) :
                  /\ Env(i) = handlers[h].rx
                  /\ consumed[i].msg_id = handlers[h].msg_id
                  /\ consumed[i] = InboxMessageOf(handlers[h].request, handlers[h].msg_id)
            /\ handlers[h].pc = "done" =>
                  /\ handlers[h].response # Panic
                  /\ handlers[h].request.type = "place-order" =>
                        handlers[h].response.order_id = handlers[h].rx.messages[1].order_id

\* two place-order requests were answered, each handler holding its own
\* envelope, the second one's reply with a deal against the first one's order
C25_Witness ==
    /\ handlers[1].pc = "done"
    /\ handlers[2].pc = "done"
    /\ handlers[1].rx # handlers[2].rx
    /\ handlers[1].request.type = "place-order"
    /\ handlers[2].request.type = "place-order"
    /\ Len(handlers[2].response.deals) = 1
    /\ gw_log[1].had_id
    /\ Len(gw_log) = 2

(* ---- C26 ---- *)

\* C26: the msg_id of every message in the inbox queue is registered, and
\* every envelope the outbox consumer handled for a handler that is still
\* waiting or has replied found its msg_id registered.
C26_RegisteredBeforePublish ==
    /\ \A i \in 1..Len(inbox_queue) : HasId(senders, GetId(InboxMessage(i)))
    /\ \A k \in 1..Len(gw_log) :
          handlers[HandlerOf(gw_log[k].id)].pc # "dropped" => gw_log[k].had_id

(* ---- C27 ---- *)

\* C27: every registered id belongs to one handler and its cell holds that
\* handler's sender or nothing; of the deliveries for one id at most one is
\* sent to the waiter, and it is the first one that found the id registered;
\* what the handler holds is the envelope of that delivery.
C27_SlotOnce ==
    /\ \A id \in DOMAIN senders :
          /\ Cardinality({h \in HandlerIds : handlers[h].msg_id = id}) = 1
          /\ senders[id] \in {None, Some(HandlerOf(id))}
    /\ \A k \in 1..Len(gw_log) :
          gw_log[k].sent =>
              /\ \A j \in 1..(k - 1) :
                    gw_log[j].id = gw_log[k].id => ~gw_log[j].had_id
              /\ \A j \in (k + 1)..Len(gw_log) :
                    gw_log[j].id = gw_log[k].id => ~gw_log[j].sent
              /\ senders[gw_log[k].id] = None
              /\ handlers[HandlerOf(gw_log[k].id)].rx \in {None, Env(gw_log[k].index)}

\* an envelope was delivered twice: the first delivery reached the waiter,
\* which has replied, the second one found the cell empty and was acknowledged
C27_Witness ==
    /\ Len(gw_log) = 2
    /\ gw_log[1].id = gw_log[2].id
    /\ gw_log[1].sent
    /\ gw_log[2].had_id
    /\ ~gw_log[2].sent
    /\ gw_log[2].acked
    /\ handlers[HandlerOf(gw_log[1].id)].pc = "done"

(* ---- C28 ---- *)

\* C28: every message in the inbox queue and every message in the outbox
\* queue has the hyphenated msg_id of its command as correlation_id property.
C28_CorrelationEverywhere ==
    /\ \A i \in 1..Len(inbox_queue) :
          inbox_queue[i].properties.correlation_id
              = ToHyphenated(GetId(InboxMessage(i)))
    /\ \A i \in 1..Len(outbox_queue) :
          outbox_queue[i].properties.correlation_id
              = ToHyphenated(consumed[i].msg_id)

(* ---- C29 ---- *)

\* a PlaceOrder the gateway has to turn away
Invalid(message) ==
    /\ message.type = "PlaceOrder"
    /\ \/ message.side \notin {"buy", "sell"}
       \/ message.price = 0
       \/ message.volume = 0

\* C29: no PlaceOrder with a side other than "buy" or "sell", or with price 0
\* or volume 0, is in the inbox queue or among the messages the exchange
\* consumed.
C29_InvalidRejected ==
    /\ \A i \in 1..Len(inbox_queue) : ~Invalid(InboxMessage(i))
    /\ \A i \in 1..Len(consumed) : ~Invalid(consumed[i])

(* ---- C30 ---- *)

\* C30: every place returns Ok; its k-th deal is with the k-th maker of the
\* opposite side in iteration order, so the walk visits each maker at most
\* once and makes at most as many deals as there were makers; the volume of a
\* deal is at most the volume its maker and its taker had before it, so
\* neither subtraction underflows.
C30_PlaceTotal ==
    last.op = "place" =>
        /\ last.result = "Ok"
        /\ Len(last.deals) <= Len(MakersBefore)
        /\ \A k \in 1..Len(last.deals) :
              /\ last.deals[k].maker_order = MakersBefore[k].order
              /\ last.deals[k].volume <= last.deals[k].maker_order.volume
              /\ last.deals[k].volume <= last.deals[k].taker_order.volume
              /\ last.deals[k].taker_order.volume - last.deals[k].volume >= 0
              /\ last.deals[k].maker_order.volume - last.deals[k].volume >= 0

\* a place walked over both makers of the opposite side, took all of the
\* first and part of the second, and returned Ok
C30_Witness ==
    /\ last.op = "place"
    /\ last.result = "Ok"
    /\ Len(MakersBefore) = 2
    /\ Len(last.deals) = 2
    /\ last.deals[1].volume = last.deals[1].maker_order.volume
    /\ last.deals[2].volume < last.deals[2].maker_order.volume
    /\ MakersBefore[1].order.price # MakersBefore[2].order.price

(* ---- C31 ---- *)

\* C31: every delivery the outbox consumer handled without finding its id
\* registered was acknowledged (and sent to no waiter).
C31_UnregisteredAcked ==
    \A k \in 1..Len(gw_log) :
        ~gw_log[k].had_id => (gw_log[k].acked /\ ~gw_log[k].sent)

(* ---- C32 ---- *)

\* the outbox message with this index waits in the queue for a consumer
Queued(i) == i > Delivered

\* the gateway's outbox consumer was handed the outbox message with this index
HandedToGateway(i) == \E k \in 1..Len(gw_log) : gw_log[k].index = i

\* C32: every published outbox envelope either still waits in the queue or was
\* handed to the gateway's outbox consumer: none was taken by the subscriber
\* alone, and no handler waits for an envelope the subscriber acknowledged.
C32_EnvelopeReachesGateway ==
    /\ \A i \in 1..Len(outbox_queue) : Queued(i) \/ HandedToGateway(i)
    /\ \A h \in HandlerIds, k \in 1..Len(md_log) :
          (/\ handlers[h].pc = "waiting"
           /\ handlers[h].rx = None
           /\ md_log[k].acked) =>
              md_log[k].envelope.inbox_correlation_id # handlers[h].msg_id

(* ---- C33 ---- *)

\* C33: a delivery the outbox consumer acknowledged had its id registered when
\* the consumer looked; a delivery whose id was not registered is neither
\* acknowledged nor sent to a waiter, and leaves every handler's receiver
\* empty-handed: what a receiver holds came from a delivery that found the id.
C33_AckOnlyRegistered ==
    /\ \A k \in 1..Len(gw_log) :
          /\ gw_log[k].acked => gw_log[k].had_id
          /\ ~gw_log[k].had_id => (~gw_log[k].acked /\ ~gw_log[k].sent)
    /\ \A h \in HandlerIds :
          handlers[h].rx # None =>
              \E k \in 1..Len(gw_log) :
                  /\ gw_log[k].id = handlers[h].msg_id
                  /\ gw_log[k].had_id
                  /\ gw_log[k].sent

\* the envelope of the first request came before its handler registered and
\* was left unacknowledged; the envelope of the second one was sent and
\* acknowledged
C33_Witness ==
    /\ Len(gw_log) = 2
    /\ ~gw_log[1].had_id
    /\ ~gw_log[1].acked
    /\ gw_log[2].had_id
    /\ gw_log[2].sent
    /\ gw_log[2].acked
    /\ gw_log[1].id # gw_log[2].id
    /\ handlers[1].pc = "waiting"

(* ---- C34 ---- *)

\* C34: every OrderFilled in a published envelope has a volume of at least 1.
C34_DealsPositive ==
    \A i \in 1..Len(outbox_queue) :
        \A k \in 1..Len(Env(i).messages) :
            Env(i).messages[k].type = "OrderFilled" => Env(i).messages[k].volume >= 1

(* ---- C35 ---- *)

\* the side a side string names
Denotes(side) ==
    IF side = "buy" THEN Buy ELSE IF side = "sell" THEN Sell ELSE "neither"

\* C35: in every published envelope of a PlaceOrder the side of the
\* OrderPlaced names the side of the taker_order of each OrderFilled.
C35_SideReported ==
    \A i \in 1..Len(outbox_queue) :
        Env(i).messages[1].type = "OrderPlaced" =>
            \A k \in 2..Len(Env(i).messages) :
                Denotes(Env(i).messages[1].side) = Env(i).messages[k].taker_order.side

(* ---- C36 ---- *)

\* the message of the delivery the loop body took in this step
Taken == delivery'.message

\* C36: a step that takes a delivery for pair P leaves the set of pairs and the
\* book of every other pair as they were; a CancelOrder for P naming an id that
\* rests in the book of another pair is answered OrderNotFound and the order
\* still rests there; the publish, the acknowledgement and a consumer error
\* change no book; add_pair of a name that is present returns AlreadyExists and
\* leaves every book as it was, add_pair of a new name returns Ok and adds an
\* empty book beside the others.
C36_OnlyOwnBook ==
    [][/\ consumed' # consumed =>
            /\ DOMAIN pairs' = DOMAIN pairs
            /\ \A q \in DOMAIN pairs : q # Taken.pair => pairs'[q] = pairs[q]
            /\ \A q \in DOMAIN pairs :
                  (/\ Taken.type = "CancelOrder"
                   /\ Taken.pair \in DOMAIN pairs
                   /\ q # Taken.pair
                   /\ Taken.order_id \in IdsIn(pairs[q])) =>
                      /\ delivery'.outbox.messages =
                             <<OrderNotFound(Taken.pair, Taken.order_id)>>
                      /\ Taken.order_id \in IdsIn(pairs'[q])
       /\ (consumed' = consumed /\ ~CanAddPair) => pairs' = pairs
       /\ (CanAddPair /\ pc' = pc) =>
            IF add_pair_call'.pair_name \in DOMAIN pairs
            THEN /\ add_pair_call'.result = "AlreadyExists"
                 /\ pairs' = pairs
            ELSE /\ add_pair_call'.result = "Ok"
                 /\ DOMAIN pairs' = DOMAIN pairs \cup {add_pair_call'.pair_name}
                 /\ pairs'[add_pair_call'.pair_name] = NewBook
                 /\ \A q \in DOMAIN pairs : pairs'[q] = pairs[q]
      ]_vars

\* both pairs were added; an order rests in the book of one pair, a CancelOrder
\* naming it for the other pair was answered OrderNotFound; the loop ended and
\* add_pair of the first pair returned AlreadyExists
C36_Witness ==
    /\ DOMAIN pairs = PairNames
    /\ delivery.tag # 0
    /\ delivery.message.type = "CancelOrder"
    /\ delivery.message.pair = "ETH_USD"
    /\ delivery.message.order_id \in IdsIn(pairs["BTC_USD"])
    /\ delivery.outbox.messages = <<OrderNotFound("ETH_USD", delivery.message.order_id)>>
    /\ pc = "failed"
    /\ add_pair_call = AddPairCall("BTC_USD", "AlreadyExists")

(* ---- C37 ---- *)

\* C37: a delivery that does not decode is the last one the loop consumed: the
\* loop has ended with the decode error, the books are the books before the
\* delivery, no envelope was published for it and its tag was not
\* acknowledged.
C37_MalformedEndsLoop ==
    \A i \in 1..Len(consumed) :
        consumed[i].type = "Malformed" =>
            /\ i = Len(consumed)
            /\ pc = "failed"
            /\ error = "decode"
            /\ delivery.tag = i
            /\ pairs = delivery.pre
            /\ Len(outbox_queue) = i - 1
            /\ \A k \in 1..Len(acked) : acked[k] # i

\* an order was placed and acknowledged, then a delivery failed to decode
C37_Witness ==
    /\ Len(consumed) = 2
    /\ consumed[1].type = "PlaceOrder"
    /\ consumed[2].type = "Malformed"
    /\ acked = <<1>>
    /\ Len(outbox_queue) = 1
    /\ IdsIn(pairs["BTC_USD"]) # {}
    /\ pc = "failed"

====
